---- MODULE Spec2Model ----
(***************************************************************************)
(* Model of everst.py: the Streamlit script that loads peaks.dbf and       *)
(* exped.dbf through a cached loader, left-joins them on PEAKID, reorders  *)
(* the columns, keeps the rows of the most frequent peaks, derives the     *)
(* boolean SPONSOR column and computes the aggregations behind the charts. *)
(*                                                                         *)
(* A DataFrame is a record [err, cols, rows]: cols is the ordered list of  *)
(* column names, rows the sequence of rows, each row a function from the   *)
(* column names to cells.  A raised exception is a frame whose err field   *)
(* names it.  Missing values: NaN in a numeric column, NaNStr in a text    *)
(* column, None for a Python None in the SPONSOR column.  A sponsor text   *)
(* is a sequence of characters so that str() and strip() are computed.     *)
(***************************************************************************)
EXTENDS Integers, Sequences, FiniteSets, TLC

VARIABLES
    fs,                 \* path -> the DBF file on disk (a frame, or Missing)
    cache,              \* st.cache_data store of load_df: path -> frame or NoEntry
    reads,              \* path -> number of times the file was read from disk
    hits,               \* paths that load_df has served from the cache
    head_n,             \* the N of .head(N) (10 in the script)
    ordered_columns,    \* the explicit column list of the reorder step
    pc,                 \* position of the script run
    error,              \* exception that stopped the run, "" if none
    df_peaks, df_exped, \* the loaded tables
    df_combined,        \* the merged, then reordered table
    top_peaks,          \* list of the selected PEAKID values
    df_combined_top10,  \* rows of the selected peaks, SPONSOR derived in place
    table_choice,       \* sidebar selection
    exp_counts, exp_counts_season, avg_highpoint, peak_stats

vars == <<fs, cache, reads, hits, head_n, ordered_columns, pc, error,
          df_peaks, df_exped, df_combined, top_peaks, df_combined_top10,
          table_choice, exp_counts, exp_counts_season, avg_highpoint, peak_stats>>

(***************************************************************************)
(* Bounds of the model.                                                    *)
(***************************************************************************)
MaxExped == 3          \* expedition rows in the join specifications
MaxPeaks == 2          \* peak rows
MaxRowsTop == 4        \* expedition rows in the top-N specification
MaxN == 2              \* largest N tried for .head(N)
MaxSponsorRows == 2    \* expedition rows in the sponsor specification
MaxAggRows == 2        \* expedition rows in the aggregation specification

(***************************************************************************)
(* Frames, missing values, small helpers.                                  *)
(***************************************************************************)
Range(s) == {s[i] : i \in DOMAIN s}

Min(a, b) == IF a < b THEN a ELSE b

Frame(cols, rows) == [err |-> "", cols |-> cols, rows |-> rows]

Raise(e) == [err |-> e, cols |-> <<>>, rows |-> <<>>]

NoFrame == Raise("unset")

NoEntry == Raise("NoEntry")

Missing == Raise("Missing")

NaN == -1

NaNStr == "<NaN>"

None == [isnull |-> TRUE, text |-> <<>>]

Text(s) == [isnull |-> FALSE, text |-> s]

NumericCols == {"HEIGHTM", "HIGHPOINT", "YEAR", "SEASON", "SMTDAYS", "TOTDAYS",
                "TERMREASON", "TOTMEMBERS", "MDEATHS", "CAMPS"}

\* pandas fills the right-hand columns of an unmatched left row with NaN
NullOf(c) == IF c \in NumericCols THEN NaN ELSE NaNStr

IsNullIn(c, v) == v = NullOf(c)

(***************************************************************************)
(* The script's constants.                                                 *)
(***************************************************************************)
peaks_path == "peaks.dbf"

exped_path == "exped.dbf"

Paths == {peaks_path, exped_path}

peaks_cols == <<"PEAKID", "PKNAME", "HEIGHTM">>

exped_cols == <<"EXPID", "PEAKID", "YEAR", "SEASON", "NATION", "SPONSOR",
                "SUCCESS1", "SUCCESS2", "SUCCESS3", "SUCCESS4",
                "SMTDAYS", "TOTDAYS", "TERMREASON", "HIGHPOINT",
                "TOTMEMBERS", "MDEATHS", "O2USED", "CAMPS">>

OrderedColumns == <<"EXPID", "PEAKID", "PKNAME", "HEIGHTM", "HIGHPOINT",
                    "YEAR", "SEASON", "NATION", "SPONSOR",
                    "SUCCESS1", "SUCCESS2", "SUCCESS3", "SUCCESS4",
                    "SMTDAYS", "TOTDAYS", "TERMREASON",
                    "TOTMEMBERS", "MDEATHS", "O2USED", "CAMPS">>

TableChoices == {"Peaks", "Expeditions", "Top 10 Peaks (Combined)", "Plotting"}

(***************************************************************************)
(* df[cols]: projection on a list of columns.  pandas raises KeyError when *)
(* a listed column is absent; a column of df that is not listed is simply  *)
(* not part of the result.                                                 *)
(***************************************************************************)
getitem_cols(df, cols) ==
    IF \E i \in DOMAIN cols : cols[i] \notin Range(df.cols)
    THEN Raise("KeyError")
    ELSE Frame(cols, [i \in 1..Len(df.rows) |->
                         [c \in Range(cols) |-> df.rows[i][c]]])

(***************************************************************************)
(* pd.merge(left, right, on=key, how='left'): for every left row, in left  *)
(* order, one output row per right row with the same key, in right order;  *)
(* a left row without a match gives one row with the right columns null.   *)
(***************************************************************************)
RightCols(right, on) == SelectSeq(right.cols, LAMBDA c : c # on)

RECURSIVE inner_rows(_, _, _, _)
inner_rows(lrows, rrows, on, rc) ==
    IF lrows = <<>> THEN <<>>
    ELSE LET l  == Head(lrows)
             ms == SelectSeq(rrows, LAMBDA r : r[on] = l[on])
         IN  [k \in 1..Len(ms) |-> l @@ [c \in rc |-> ms[k][c]]]
             \o inner_rows(Tail(lrows), rrows, on, rc)

\* faulty variant: the matched rows first, the unmatched rows appended after them
merge_rows_unmatched_last(lrows, rrows, on, rc) ==
    LET unmatched == SelectSeq(lrows, LAMBDA l : \A j \in DOMAIN rrows : rrows[j][on] # l[on])
    IN  inner_rows(lrows, rrows, on, rc)
        \o [k \in 1..Len(unmatched) |-> unmatched[k] @@ [c \in rc |-> NullOf(c)]]

RECURSIVE merge_rows(_, _, _, _)
merge_rows(lrows, rrows, on, rc) ==
    IF lrows = <<>> THEN <<>>
    ELSE LET l  == Head(lrows)
             ms == SelectSeq(rrows, LAMBDA r : r[on] = l[on])
             out == IF ms = <<>>
                    THEN << l @@ [c \in rc |-> NullOf(c)] >>
                    ELSE [k \in 1..Len(ms) |-> l @@ [c \in rc |-> ms[k][c]]]
         IN  out \o merge_rows(Tail(lrows), rrows, on, rc)

\* faulty variant: how='inner'
merge_inner(left, right, on) ==
    Frame(left.cols \o RightCols(right, on),
          inner_rows(left.rows, right.rows, on, Range(RightCols(right, on))))

merge_left(left, right, on) ==
    Frame(left.cols \o RightCols(right, on),
          merge_rows(left.rows, right.rows, on, Range(RightCols(right, on))))

(***************************************************************************)
(* Series.value_counts(): the distinct non-null values of a column with    *)
(* their row counts (dropna=True), sorted by descending count.  The keys   *)
(* come out of the hash table in first-seen order and are then sorted by   *)
(* Series.sort_values with its default kind='quicksort', which numpy does  *)
(* not make stable: the relative order of keys with equal counts is left   *)
(* to the sort.  value_counts is therefore the SET of orders the call can  *)
(* return; the caller takes any one of them.                               *)
(***************************************************************************)
column(df, c) == [i \in 1..Len(df.rows) |-> df.rows[i][c]]

CountOf(vals, k) == Cardinality({i \in DOMAIN vals : vals[i] = k})

Counted(vals, order) ==
    [i \in 1..Len(order) |-> [key |-> order[i], count |-> CountOf(vals, order[i])]]

RECURSIVE first_seen(_, _, _)
first_seen(vals, null, acc) ==
    IF vals = <<>> THEN acc
    ELSE first_seen(Tail(vals), null,
                    IF Head(vals) = null \/ Head(vals) \in Range(acc)
                    THEN acc ELSE Append(acc, Head(vals)))

Orderings(K) ==
    {f \in [1..Cardinality(K) -> K] : \A i, j \in DOMAIN f : i # j => f[i] # f[j]}

\* faulty variant: sorted by ascending count
value_counts_ascending(df, c) ==
    LET vals == column(df, c)
        seen == first_seen(vals, NullOf(c), <<>>)
    IN  {Counted(vals, f) : f \in
           {g \in Orderings(Range(seen)) :
              \A i, j \in DOMAIN g :
                 i < j => CountOf(vals, g[i]) <= CountOf(vals, g[j])}}

value_counts(df, c) ==
    LET vals == column(df, c)
        seen == first_seen(vals, NullOf(c), <<>>)
    IN  {Counted(vals, f) : f \in
           {g \in Orderings(Range(seen)) :
              \A i, j \in DOMAIN g :
                 i < j => CountOf(vals, g[i]) >= CountOf(vals, g[j])}}

\* faulty variant: one entry too many
head_plus_one(s, n) == SubSeq(s, 1, Min(n + 1, Len(s)))

\* Series.head(n): the first n entries
head(s, n) == SubSeq(s, 1, Min(n, Len(s)))

\* .index.tolist()
index_tolist(vc) == [i \in 1..Len(vc) |-> vc[i].key]

\* df[df[c].isin(values)].copy()
isin_rows(df, c, values) ==
    Frame(df.cols, SelectSeq(df.rows, LAMBDA r : r[c] \in Range(values)))

(***************************************************************************)
(* lambda x: bool(str(x).strip())                                          *)
(***************************************************************************)
Whitespace == {" ", "\t", "\n", "\r"}

\* str(x): a str is itself, None prints as the four characters of "None"
py_str(x) == IF x.isnull THEN <<"N", "o", "n", "e">> ELSE x.text

RECURSIVE lstrip(_)
lstrip(s) ==
    IF s # <<>> /\ Head(s) \in Whitespace THEN lstrip(Tail(s)) ELSE s

RECURSIVE rstrip(_)
rstrip(s) ==
    IF s # <<>> /\ s[Len(s)] \in Whitespace
    THEN rstrip(SubSeq(s, 1, Len(s) - 1)) ELSE s

strip(s) == rstrip(lstrip(s))

py_bool(s) == s # <<>>

sponsor_flag(x) == py_bool(strip(py_str(x)))

apply_sponsor(df) ==
    Frame(df.cols,
          [i \in 1..Len(df.rows) |->
              [df.rows[i] EXCEPT !["SPONSOR"] = sponsor_flag(df.rows[i]["SPONSOR"])]])

(***************************************************************************)
(* DataFrame.groupby(keys): one group per distinct combination of key      *)
(* values among the rows; with the default dropna=True a row whose key     *)
(* holds a missing value belongs to no group; with the default sort=True   *)
(* the groups come in ascending key order.                                 *)
(***************************************************************************)
\* the text values of the model in lexicographic order
StrOrder == <<"<NaN>", "EVER", "Everest", "LHOT", "Lhotse", "Sagarmatha", "XYZ">>

StrRank(s) == CHOOSE i \in DOMAIN StrOrder : StrOrder[i] = s

CellLess(c, a, b) == IF c \in NumericCols THEN a < b ELSE StrRank(a) < StrRank(b)

\* lexicographic order of key tuples a, b over the key columns ks
KeyLess(ks, a, b) ==
    \E i \in DOMAIN ks :
        /\ CellLess(ks[i], a[i], b[i])
        /\ \A j \in 1..(i - 1) : a[j] = b[j]

KeyOf(r, ks) == [i \in 1..Len(ks) |-> r[ks[i]]]

HasNull(ks, k) == \E i \in DOMAIN ks : IsNullIn(ks[i], k[i])

RECURSIVE SortKeys(_, _)
SortKeys(ks, S) ==
    IF S = {} THEN <<>>
    ELSE LET m == CHOOSE a \in S : \A b \in S \ {a} : KeyLess(ks, a, b)
         IN  <<m>> \o SortKeys(ks, S \ {m})

group_keys(df, ks) ==
    SortKeys(ks, {k \in {KeyOf(df.rows[i], ks) : i \in DOMAIN df.rows} :
                     ~HasNull(ks, k)})

group_rows(df, ks, k) == SelectSeq(df.rows, LAMBDA r : KeyOf(r, ks) = k)

RECURSIVE SumSeq(_)
SumSeq(s) == IF s = <<>> THEN 0 ELSE Head(s) + SumSeq(Tail(s))

NonNaN(s) == SelectSeq(s, LAMBDA v : v # NaN)

\* .size().reset_index(name='ExpeditionCount'), then SEASON.astype(str)
groupby_size(df) ==
    LET ks   == <<"PKNAME", "SEASON">>
        keys == group_keys(df, ks)
    IN  Frame(<<"PKNAME", "SEASON", "ExpeditionCount">>,
              [g \in 1..Len(keys) |->
                  [PKNAME |-> keys[g][1],
                   SEASON |-> ToString(keys[g][2]),
                   ExpeditionCount |-> Len(group_rows(df, ks, keys[g]))]])

\* ['HIGHPOINT'].mean(): NaN cells are skipped; the mean is kept as the
\* fraction num/den, and is NaN (den = 0) when the group has no value
groupby_mean(df) ==
    LET ks   == <<"PKNAME", "HEIGHTM">>
        keys == group_keys(df, ks)
        hp(k) == NonNaN([i \in 1..Len(group_rows(df, ks, k)) |->
                            group_rows(df, ks, k)[i]["HIGHPOINT"]])
    IN  Frame(<<"PeakName", "Height_m", "Avg_Highpoint_m">>,
              [g \in 1..Len(keys) |->
                  [PeakName |-> keys[g][1],
                   Height_m |-> keys[g][2],
                   Avg_Highpoint_m |->
                       [num |-> SumSeq(hp(keys[g])), den |-> Len(hp(keys[g]))]]])

\* .agg({'TOTMEMBERS': 'sum', 'MDEATHS': 'sum'}).reset_index()
groupby_sum(df) ==
    LET ks   == <<"PKNAME">>
        keys == group_keys(df, ks)
        col(k, c) == NonNaN([i \in 1..Len(group_rows(df, ks, k)) |->
                                group_rows(df, ks, k)[i][c]])
    IN  Frame(<<"PKNAME", "TOTMEMBERS", "MDEATHS">>,
              [g \in 1..Len(keys) |->
                  [PKNAME |-> keys[g][1],
                   TOTMEMBERS |-> SumSeq(col(keys[g], "TOTMEMBERS")),
                   MDEATHS |-> SumSeq(col(keys[g], "MDEATHS"))]])

\* ['PKNAME'].value_counts().reset_index() with the columns renamed
counts_frame(vc) ==
    Frame(<<"PeakName", "ExpeditionCount">>,
          [i \in 1..Len(vc) |->
              [PeakName |-> vc[i].key, ExpeditionCount |-> vc[i].count]])

(***************************************************************************)
(* @st.cache_data def load_df(path): the first call for a path reads the   *)
(* file and stores the table under the path; a later call returns the      *)
(* stored table.  A call that raises (no such file) stores nothing.  The   *)
(* result is the returned table together with the new cache, read counts   *)
(* and the set of paths served from the cache.                             *)
(***************************************************************************)
\* faulty variant: no cache lookup, the file is read on every call
load_df_uncached(path) ==
    IF fs[path].err # ""
    THEN [ret |-> Raise("LoadError"), cache |-> cache, reads |-> reads, hits |-> hits]
    ELSE [ret   |-> fs[path],
          cache |-> [cache EXCEPT ![path] = fs[path]],
          reads |-> [reads EXCEPT ![path] = @ + 1],
          hits  |-> IF cache[path].err = "" THEN hits \cup {path} ELSE hits]

load_df(path) ==
    IF cache[path].err = ""
    THEN [ret |-> cache[path], cache |-> cache, reads |-> reads,
          hits |-> hits \cup {path}]
    ELSE IF fs[path].err # ""
    THEN [ret |-> Raise("LoadError"), cache |-> cache, reads |-> reads, hits |-> hits]
    ELSE [ret   |-> fs[path],
          cache |-> [cache EXCEPT ![path] = fs[path]],
          reads |-> [reads EXCEPT ![path] = @ + 1],
          hits  |-> hits]

(***************************************************************************)
(* One run of the script, top to bottom.  An exception ends the run.       *)
(***************************************************************************)
Stop(e) == pc' = "error" /\ error' = e

aggregates == <<exp_counts, exp_counts_season, avg_highpoint, peak_stats>>

\* df_peaks = load_df(peaks_path)
LoadPeaks ==
    /\ pc = "load_peaks"
    /\ LET r == load_df(peaks_path)
       IN  /\ cache' = r.cache /\ reads' = r.reads /\ hits' = r.hits
           /\ IF r.ret.err # ""
              THEN Stop(r.ret.err) /\ UNCHANGED df_peaks
              ELSE df_peaks' = r.ret /\ pc' = "load_exped" /\ UNCHANGED error
    /\ UNCHANGED <<fs, head_n, ordered_columns, df_exped, df_combined, top_peaks,
                   df_combined_top10, table_choice, aggregates>>

\* df_exped = load_df(exped_path)
LoadExped ==
    /\ pc = "load_exped"
    /\ LET r == load_df(exped_path)
       IN  /\ cache' = r.cache /\ reads' = r.reads /\ hits' = r.hits
           /\ IF r.ret.err # ""
              THEN Stop(r.ret.err) /\ UNCHANGED df_exped
              ELSE df_exped' = r.ret /\ pc' = "merge" /\ UNCHANGED error
    /\ UNCHANGED <<fs, head_n, ordered_columns, df_peaks, df_combined, top_peaks,
                   df_combined_top10, table_choice, aggregates>>

\* df_peaks[peaks_cols], df_exped[exped_cols], pd.merge(..., on='PEAKID', how='left')
Merge ==
    /\ pc = "merge"
    /\ LET df_peaks_subset == getitem_cols(df_peaks, peaks_cols)
           df_exped_subset == getitem_cols(df_exped, exped_cols)
       IN  IF df_peaks_subset.err # "" \/ df_exped_subset.err # ""
           THEN Stop("KeyError") /\ UNCHANGED df_combined
           ELSE /\ df_combined' = merge_left(df_exped_subset, df_peaks_subset, "PEAKID")
                /\ pc' = "reorder" /\ UNCHANGED error
    /\ UNCHANGED <<fs, cache, reads, hits, head_n, ordered_columns, df_peaks, df_exped,
                   top_peaks, df_combined_top10, table_choice, aggregates>>

\* df_combined = df_combined[ordered_columns]
Reorder ==
    /\ pc = "reorder"
    /\ LET r == getitem_cols(df_combined, ordered_columns)
       IN  IF r.err # ""
           THEN Stop(r.err) /\ UNCHANGED df_combined
           ELSE df_combined' = r /\ pc' = "filter" /\ UNCHANGED error
    /\ UNCHANGED <<fs, cache, reads, hits, head_n, ordered_columns, df_peaks, df_exped,
                   top_peaks, df_combined_top10, table_choice, aggregates>>

\* top_peaks = value_counts().head(10).index.tolist(); the rows whose PEAKID isin it
FilterTop ==
    /\ pc = "filter"
    /\ IF "PEAKID" \notin Range(df_combined.cols)
       THEN Stop("KeyError") /\ UNCHANGED <<top_peaks, df_combined_top10>>
       ELSE \E vc \in value_counts(df_combined, "PEAKID") :
               /\ top_peaks' = index_tolist(head(vc, head_n))
               /\ df_combined_top10' = isin_rows(df_combined, "PEAKID", top_peaks')
               /\ pc' = "derive" /\ UNCHANGED error
    /\ UNCHANGED <<fs, cache, reads, hits, head_n, ordered_columns, df_peaks, df_exped,
                   df_combined, table_choice, aggregates>>

\* df_combined_top10['SPONSOR'] = df_combined_top10['SPONSOR'].apply(...)
DeriveSponsor ==
    /\ pc = "derive"
    /\ IF "SPONSOR" \notin Range(df_combined_top10.cols)
       THEN Stop("KeyError") /\ UNCHANGED df_combined_top10
       ELSE /\ df_combined_top10' = apply_sponsor(df_combined_top10)
            /\ pc' = "menu" /\ UNCHANGED error
    /\ UNCHANGED <<fs, cache, reads, hits, head_n, ordered_columns, df_peaks, df_exped,
                   df_combined, top_peaks, table_choice, aggregates>>

Show(choice) ==
    /\ pc = "menu"
    /\ table_choice' = choice
    /\ pc' = "done"
    /\ UNCHANGED <<fs, cache, reads, hits, head_n, ordered_columns, error, df_peaks,
                   df_exped, df_combined, top_peaks, df_combined_top10, aggregates>>

ShowPeaks == Show("Peaks")

ShowExpeditions == Show("Expeditions")

ShowTop == Show("Top 10 Peaks (Combined)")

PlotCols == {"PKNAME", "SEASON", "HEIGHTM", "HIGHPOINT", "TOTMEMBERS", "MDEATHS"}

\* the "Plotting" branch: the four aggregations behind the charts
Plot ==
    /\ pc = "menu"
    /\ table_choice' = "Plotting"
    /\ IF ~(PlotCols \subseteq Range(df_combined_top10.cols))
       THEN Stop("KeyError") /\ UNCHANGED aggregates
       ELSE /\ \E vc \in value_counts(df_combined_top10, "PKNAME") :
                   exp_counts' = counts_frame(vc)
            /\ exp_counts_season' = groupby_size(df_combined_top10)
            /\ avg_highpoint' = groupby_mean(df_combined_top10)
            /\ peak_stats' = groupby_sum(df_combined_top10)
            /\ pc' = "done" /\ UNCHANGED error
    /\ UNCHANGED <<fs, cache, reads, hits, head_n, ordered_columns, df_peaks, df_exped,
                   df_combined, top_peaks, df_combined_top10>>

\* a widget interaction makes Streamlit run the script again in the same process
Rerun ==
    /\ pc \in {"done", "error"}
    /\ pc' = "load_peaks"
    /\ error' = ""
    /\ df_peaks' = NoFrame /\ df_exped' = NoFrame /\ df_combined' = NoFrame
    /\ top_peaks' = <<>> /\ df_combined_top10' = NoFrame
    /\ table_choice' = ""
    /\ exp_counts' = NoFrame /\ exp_counts_season' = NoFrame
    /\ avg_highpoint' = NoFrame /\ peak_stats' = NoFrame
    /\ UNCHANGED <<fs, cache, reads, hits, head_n, ordered_columns>>

Next ==
    \/ LoadPeaks \/ LoadExped \/ Merge \/ Reorder \/ FilterTop \/ DeriveSponsor
    \/ ShowPeaks \/ ShowExpeditions \/ ShowTop \/ Plot \/ Rerun

(***************************************************************************)
(* The files on disk.                                                      *)
(***************************************************************************)
PeakFileCols == <<"PEAKID", "PKNAME", "LOCATION", "HEIGHTM">>

ExpedFileCols == exped_cols \o <<"ROUTE1">>

PeakIds == {"EVER", "LHOT", "XYZ"}

PeakRecord(id, name, h) ==
    [PEAKID |-> id, PKNAME |-> name, LOCATION |-> "Khumbu Himal", HEIGHTM |-> h]

Everest == PeakRecord("EVER", "Everest", 8848)

Sagarmatha == PeakRecord("EVER", "Sagarmatha", 8849)

Lhotse == PeakRecord("LHOT", "Lhotse", 8516)

PeakRecords == {Everest, Sagarmatha, Lhotse}

ExpedRecord(id, pk, season, sponsor, hp) ==
    [EXPID |-> id, PEAKID |-> pk, YEAR |-> 1953, SEASON |-> season, NATION |-> "UK",
     SPONSOR |-> sponsor, SUCCESS1 |-> TRUE, SUCCESS2 |-> FALSE, SUCCESS3 |-> FALSE,
     SUCCESS4 |-> FALSE, SMTDAYS |-> 40, TOTDAYS |-> 60, TERMREASON |-> 1,
     HIGHPOINT |-> hp, TOTMEMBERS |-> 5, MDEATHS |-> 1, O2USED |-> TRUE,
     CAMPS |-> 4, ROUTE1 |-> "S Col"]

SeqsUpTo(S, n) == UNION {[1..k -> S] : k \in 0..n}

PeakFile(rows) == Frame(PeakFileCols, rows)

\* an expedition file whose rows differ in the given fields; EXPID is the row number
ExpedFile(parts) ==
    Frame(ExpedFileCols,
          [i \in 1..Len(parts) |->
              ExpedRecord(i, parts[i].pk, parts[i].season, parts[i].sponsor, parts[i].hp)])

Part(pk, season, sponsor, hp) ==
    [pk |-> pk, season |-> season, sponsor |-> sponsor, hp |-> hp]

ABC_Corp == <<"A", "B", "C", " ", "C", "o", "r", "p">>

OnPeak(pk) == Part(pk, 1, Text(ABC_Corp), 8000)

InitRun ==
    /\ cache = [p \in Paths |-> NoEntry]
    /\ reads = [p \in Paths |-> 0]
    /\ hits = {}
    /\ pc = "load_peaks"
    /\ error = ""
    /\ df_peaks = NoFrame /\ df_exped = NoFrame /\ df_combined = NoFrame
    /\ top_peaks = <<>> /\ df_combined_top10 = NoFrame
    /\ table_choice = ""
    /\ exp_counts = NoFrame /\ exp_counts_season = NoFrame
    /\ avg_highpoint = NoFrame /\ peak_stats = NoFrame

Files(pf, ef) == [p \in Paths |-> IF p = peaks_path THEN pf ELSE ef]

\* the join: any peaks file (duplicate PEAKID included), expeditions on any peaks
InitJoin ==
    /\ InitRun
    /\ \E rows \in SeqsUpTo(PeakRecords, MaxPeaks),
          parts \in SeqsUpTo({OnPeak(pk) : pk \in PeakIds}, MaxExped) :
          fs = Files(PeakFile(rows), ExpedFile(parts))
    /\ head_n = MaxN
    /\ ordered_columns = OrderedColumns

SpecJoin == InitJoin /\ [][Next]_vars

\* the top-N filter: a fixed peaks file, expeditions on any peaks, any N; and the
\* table with row counts EVER:5, LHOT:5, XYZ:3
ScenarioCounts ==
    ExpedFile([i \in 1..13 |->
                  OnPeak(IF i \in {1, 4, 6, 9, 12} THEN "EVER"
                         ELSE IF i \in {2, 3, 7, 10, 13} THEN "LHOT" ELSE "XYZ")])

InitTop ==
    /\ InitRun
    /\ \E ef \in {ExpedFile(parts) :
                    parts \in SeqsUpTo({OnPeak(pk) : pk \in PeakIds}, MaxRowsTop)}
                 \cup {ScenarioCounts} :
          fs = Files(PeakFile(<<Everest, Lhotse>>), ef)
    /\ head_n \in 1..MaxN
    /\ ordered_columns = OrderedColumns

SpecTop == InitTop /\ [][Next]_vars

\* the sponsor column: expeditions with any sponsor cell; and the four-row table
\* "  ", "", "ABC Corp", None
SponsorValues ==
    {None, Text(<<>>), Text(<<" ", " ">>), Text(ABC_Corp),
     Text(<<" ", "a", "\t">>), Text(<<"\n">>)}

ScenarioSponsors ==
    ExpedFile(<<Part("EVER", 1, Text(<<" ", " ">>), 8000),
                Part("EVER", 1, Text(<<>>), 8000),
                Part("EVER", 1, Text(ABC_Corp), 8000),
                Part("EVER", 1, None, 8000)>>)

InitSponsor ==
    /\ InitRun
    /\ \E ef \in {ExpedFile(parts) :
                    parts \in SeqsUpTo({Part("EVER", 1, sp, 8000) : sp \in SponsorValues},
                                       MaxSponsorRows)}
                 \cup {ScenarioSponsors} :
          fs = Files(PeakFile(<<Everest, Lhotse>>), ef)
    /\ head_n = MaxN
    /\ ordered_columns = OrderedColumns

SpecSponsor == InitSponsor /\ [][Next]_vars

\* the aggregations: expeditions on any peaks (XYZ has no peak record), in any
\* season, with or without a recorded high point
InitAgg ==
    /\ InitRun
    /\ \E parts \in SeqsUpTo({Part(pk, se, Text(ABC_Corp), hp) :
                                pk \in PeakIds, se \in {1, 2}, hp \in {NaN, 8000}},
                             MaxAggRows) :
          fs = Files(PeakFile(<<Everest, Lhotse>>), ExpedFile(parts))
    /\ head_n = MaxN
    /\ ordered_columns = OrderedColumns

SpecAgg == InitAgg /\ [][Next]_vars

\* the reorder step with column lists that do or do not match the merged table
MergedCols == exped_cols \o <<"PKNAME", "HEIGHTM">>

ColumnLists ==
    {OrderedColumns,
     SelectSeq(OrderedColumns, LAMBDA c : c # "CAMPS"),
     Append(OrderedColumns, "ROUTE1"),
     Append(SelectSeq(OrderedColumns, LAMBDA c : c # "CAMPS"), "ROUTE1")}

InitReorder ==
    /\ InitRun
    /\ \E parts \in SeqsUpTo({OnPeak(pk) : pk \in PeakIds}, MaxExped) :
          fs = Files(PeakFile(<<Everest, Lhotse>>), ExpedFile(parts))
    /\ head_n = MaxN
    /\ ordered_columns \in ColumnLists

SpecReorder == InitReorder /\ [][Next]_vars

\* the loader's cache: the files are rewritten, removed and created on disk
\* while the script is run again and again in the same process
FileVersions(p) ==
    IF p = peaks_path
    THEN {Missing, PeakFile(<<Everest>>), PeakFile(<<Everest, Lhotse>>)}
    ELSE {Missing, ExpedFile(<<OnPeak("EVER")>>),
          ExpedFile(<<OnPeak("EVER"), OnPeak("XYZ")>>)}

FileChange ==
    /\ \E p \in Paths : \E v \in FileVersions(p) :
          v # fs[p] /\ fs' = [fs EXCEPT ![p] = v]
    /\ UNCHANGED <<cache, reads, hits, head_n, ordered_columns, pc, error, df_peaks,
                   df_exped, df_combined, top_peaks, df_combined_top10, table_choice,
                   aggregates>>

InitCache ==
    /\ InitRun
    /\ fs \in [Paths -> UNION {FileVersions(p) : p \in Paths}]
    /\ \A p \in Paths : fs[p] \in FileVersions(p)
    /\ head_n = MaxN
    /\ ordered_columns = OrderedColumns

NextCache == Next \/ FileChange

SpecCache == InitCache /\ [][NextCache]_vars

(***************************************************************************)
(* Properties.                                                             *)
(***************************************************************************)
Merged == pc \in {"reorder", "filter", "derive", "menu", "done"}

Filtered == pc \in {"derive", "menu", "done"}

Derived == pc \in {"menu", "done"}

Plotted == pc = "done" /\ table_choice = "Plotting"

UniquePeakIds(df) ==
    \A i, j \in DOMAIN df.rows : i # j => df.rows[i]["PEAKID"] # df.rows[j]["PEAKID"]

\* the rows of the peaks table whose PEAKID is that of expedition row e
MatchesOf(e) == {j \in DOMAIN df_peaks.rows : df_peaks.rows[j]["PEAKID"] = e["PEAKID"]}

\* the rows of the combined table that come from expedition row e
OutputsOf(e) == {k \in DOMAIN df_combined.rows : df_combined.rows[k]["EXPID"] = e["EXPID"]}

\* C1: when the PEAKID values of the peaks table are unique, the combined table
\* has exactly as many rows as the expeditions table, unmatched rows included.
C1_JoinKeepsRowCount ==
    (Merged /\ UniquePeakIds(df_peaks)) => Len(df_combined.rows) = Len(df_exped.rows)

C1_Witness ==
    /\ Merged /\ UniquePeakIds(df_peaks)
    /\ Len(df_peaks.rows) >= 1
    /\ Len(df_exped.rows) >= 2
    /\ \E i \in DOMAIN df_exped.rows : MatchesOf(df_exped.rows[i]) = {}
    /\ \E i \in DOMAIN df_exped.rows : MatchesOf(df_exped.rows[i]) # {}
    /\ Len(df_combined.rows) = Len(df_exped.rows)

\* C2: the combined rows follow the order of the expedition rows; an expedition
\* with exactly one peak of its PEAKID gives exactly one combined row with its own
\* fields and that peak's PKNAME and HEIGHTM; an expedition with no such peak gives
\* exactly one combined row with its own fields and null PKNAME and HEIGHTM; no run
\* ends in an error because of an unmatched row.  Two expeditions on EVER and one
\* on XYZ against a peaks table holding only EVER give Everest, Everest, null.
C2_JoinRowPerExpedition ==
    /\ pc # "error"
    /\ Merged =>
        /\ \A k \in 1..(Len(df_combined.rows) - 1) :
              df_combined.rows[k]["EXPID"] <= df_combined.rows[k + 1]["EXPID"]
        /\ \A i \in DOMAIN df_exped.rows :
              LET e == df_exped.rows[i]
              IN  Cardinality(MatchesOf(e)) <= 1 =>
                    /\ Cardinality(OutputsOf(e)) = 1
                    /\ \A k \in OutputsOf(e) :
                          /\ \A c \in Range(exped_cols) : df_combined.rows[k][c] = e[c]
                          /\ MatchesOf(e) = {} =>
                                /\ df_combined.rows[k]["PKNAME"] = NaNStr
                                /\ df_combined.rows[k]["HEIGHTM"] = NaN
                          /\ \A j \in MatchesOf(e) :
                                /\ df_combined.rows[k]["PKNAME"] = df_peaks.rows[j]["PKNAME"]
                                /\ df_combined.rows[k]["HEIGHTM"] = df_peaks.rows[j]["HEIGHTM"]
        /\ (/\ column(df_exped, "PEAKID") = <<"EVER", "EVER", "XYZ">>
            /\ df_peaks.rows = <<Everest>>)
           => column(df_combined, "PKNAME") = <<"Everest", "Everest", NaNStr>>

C2_Witness ==
    /\ Merged
    /\ column(df_exped, "PEAKID") = <<"EVER", "EVER", "XYZ">>
    /\ df_peaks.rows = <<Everest>>
    /\ column(df_combined, "PKNAME") = <<"Everest", "Everest", NaNStr>>
    /\ column(df_combined, "HEIGHTM") = <<8848, 8848, NaN>>

\* C8: when the peaks table holds several rows with the same PEAKID, the combined
\* table still has one row per expedition row, carrying the PKNAME and HEIGHTM of
\* the first matching peak in the peaks table's row order.
C8_JoinFirstMatchOnly ==
    (Merged /\ ~UniquePeakIds(df_peaks)) =>
        /\ Len(df_combined.rows) = Len(df_exped.rows)
        /\ \A i \in DOMAIN df_exped.rows :
              LET ms == MatchesOf(df_exped.rows[i])
              IN  ms # {} =>
                    LET first == CHOOSE j \in ms : \A l \in ms : j <= l
                    IN  /\ df_combined.rows[i]["PKNAME"] = df_peaks.rows[first]["PKNAME"]
                        /\ df_combined.rows[i]["HEIGHTM"] = df_peaks.rows[first]["HEIGHTM"]

PeakKeys(df) == Range(column(df, "PEAKID"))

PeakCount(df, k) == CountOf(column(df, "PEAKID"), k)

\* C4: the top-N subset is made of rows of the combined table; it holds every row
\* of each PEAKID it contains and these PEAKID values are the selected ones; the
\* number of distinct PEAKID values in it is min(N, distinct PEAKID values of the
\* combined table); no key left out has more rows than a selected key.
C4_TopNFilter ==
    Filtered =>
        /\ \A i \in DOMAIN df_combined_top10.rows :
              \E k \in DOMAIN df_combined.rows :
                 \A c \in Range(df_combined.cols) \ {"SPONSOR"} :
                    df_combined_top10.rows[i][c] = df_combined.rows[k][c]
        /\ Len(df_combined_top10.rows) <= Len(df_combined.rows)
        /\ PeakKeys(df_combined_top10) = Range(top_peaks)
        /\ \A k \in PeakKeys(df_combined_top10) :
              PeakCount(df_combined_top10, k) = PeakCount(df_combined, k)
        /\ Cardinality(PeakKeys(df_combined_top10))
              = Min(head_n, Cardinality(PeakKeys(df_combined)))
        /\ \A s \in PeakKeys(df_combined_top10) :
              \A u \in PeakKeys(df_combined) \ PeakKeys(df_combined_top10) :
                 PeakCount(df_combined, s) >= PeakCount(df_combined, u)

C4_Witness ==
    /\ Filtered
    /\ Cardinality(PeakKeys(df_combined)) > head_n
    /\ Cardinality(PeakKeys(df_combined_top10)) = head_n
    /\ \E k \in PeakKeys(df_combined_top10) : PeakCount(df_combined_top10, k) >= 2
    /\ Len(df_combined_top10.rows) < Len(df_combined.rows)

\* the ranking the claim describes: descending count, equal counts in the order
\* in which the keys first appear in the table
FirstSeenRanking(df, c) ==
    LET vals == column(df, c)
        seen == first_seen(vals, NullOf(c), <<>>)
        pos(k) == CHOOSE i \in DOMAIN seen : seen[i] = k
    IN  CHOOSE g \in Orderings(Range(seen)) :
           \A i, j \in DOMAIN g : i < j =>
              \/ CountOf(vals, g[i]) > CountOf(vals, g[j])
              \/ /\ CountOf(vals, g[i]) = CountOf(vals, g[j])
                 /\ pos(g[i]) < pos(g[j])

NotFewer(k) ==
    Cardinality({o \in PeakKeys(df_combined) \ {k} :
                    PeakCount(df_combined, o) >= PeakCount(df_combined, k)})

More(k) ==
    Cardinality({o \in PeakKeys(df_combined) :
                    PeakCount(df_combined, o) > PeakCount(df_combined, k)})

NonEmptyTrimmed(x) ==
    /\ ~x.isnull
    /\ \E i \in DOMAIN x.text : x.text[i] \notin Whitespace

\* C3: the derived SPONSOR of every row of the top-N subset is true iff the
\* stripped sponsor text is non-empty, a null sponsor counting as empty text;
\* "  ", "", "ABC Corp", None derive to False, False, True, False.
C3_SponsorFlag ==
    Derived =>
        /\ \A i \in DOMAIN df_combined_top10.rows :
              \A k \in DOMAIN df_combined.rows :
                 df_combined.rows[k]["EXPID"] = df_combined_top10.rows[i]["EXPID"] =>
                    df_combined_top10.rows[i]["SPONSOR"]
                       = NonEmptyTrimmed(df_combined.rows[k]["SPONSOR"])
        /\ df_exped = ScenarioSponsors =>
              column(df_combined_top10, "SPONSOR") = <<FALSE, FALSE, TRUE, FALSE>>

\* C5: the ExpeditionCount values of the expeditions-per-peak aggregation add up
\* to the row count of the top-N subset, unmatched expeditions included.
C5_CountsSumToRows ==
    Plotted =>
        SumSeq(column(exp_counts, "ExpeditionCount")) = Len(df_combined_top10.rows)

\* the key combinations present in the rows of a table, nulls included
Combos(df, ks) == {KeyOf(df.rows[i], ks) : i \in DOMAIN df.rows}

SeasonCombos ==
    {<<k[1], ToString(k[2])>> : k \in Combos(df_combined_top10, <<"PKNAME", "SEASON">>)}

\* C9: each aggregation has exactly one row for every key combination present in
\* the rows of the top-N subset, a combination with a null key included, and no
\* row for any other combination.
C9_OneRowPerCombination ==
    Plotted =>
        /\ Combos(exp_counts_season, <<"PKNAME", "SEASON">>) = SeasonCombos
        /\ Len(exp_counts_season.rows) = Cardinality(SeasonCombos)
        /\ Combos(avg_highpoint, <<"PeakName", "Height_m">>)
              = Combos(df_combined_top10, <<"PKNAME", "HEIGHTM">>)
        /\ Len(avg_highpoint.rows)
              = Cardinality(Combos(df_combined_top10, <<"PKNAME", "HEIGHTM">>))
        /\ Combos(peak_stats, <<"PKNAME">>) = Combos(df_combined_top10, <<"PKNAME">>)
        /\ Len(peak_stats.rows) = Cardinality(Combos(df_combined_top10, <<"PKNAME">>))

C7_ReadOncePerPath ==
    /\ [](\A p \in Paths : reads[p] <= 1)
    /\ [][\A p \in Paths :
             cache[p].err = "" => cache'[p] = cache[p] /\ reads'[p] = reads[p]]_vars
    /\ [][(pc = "load_peaks" /\ pc' = "load_exped") =>
             IF cache[peaks_path].err = ""
             THEN df_peaks' = cache[peaks_path] /\ reads' = reads
             ELSE /\ df_peaks' = fs[peaks_path]
                  /\ reads'[peaks_path] = reads[peaks_path] + 1]_vars
    /\ [][(pc = "load_exped" /\ pc' = "merge") =>
             IF cache[exped_path].err = ""
             THEN df_exped' = cache[exped_path] /\ reads' = reads
             ELSE /\ df_exped' = fs[exped_path]
                  /\ reads'[exped_path] = reads[exped_path] + 1]_vars

C7_Witness ==
    /\ pc = "load_exped"
    /\ peaks_path \in hits
    /\ reads[peaks_path] = 1
    /\ df_peaks = cache[peaks_path]
    /\ fs[peaks_path] # cache[peaks_path]
    /\ fs[peaks_path].err = ""

====
